---- MODULE Spec2Model ----
(***************************************************************************)
(* A model of NDBPoly.py: the two array kernels find_intervals and         *)
(* eval_bases, and the evaluator class NDBPoly with its grow-only          *)
(* workspace.  Arrays are functions over 0..len-1 so that every index is   *)
(* the index the Python source writes.  Floats are modelled by exact       *)
(* rationals <<num, den>>; <<0, 0>> stands for the content of a cell that  *)
(* np.empty left uninitialised.                                            *)
(***************************************************************************)
EXTENDS Integers, Sequences, FiniteSets, TLC

VARIABLES fi_in, fi_ws, fi_out,     \* a call of find_intervals: arguments, workspace, result
          eb_in, eb_ws, eb_out,     \* a call of eval_bases: arguments, workspace, result
          built,                    \* the knots and coefficients the constructor was given
          self,                     \* the NDBPoly instance
          last_arg,                 \* the arguments of the latest __call__, as passed
          x_caller,                 \* the caller's coordinate array after that call
          y_out,                    \* what that call returned or raised
          calls,                    \* the number of calls made so far
          max_seen                  \* the largest batch size of any call so far

fi_vars == <<fi_in, fi_ws, fi_out>>
eb_vars == <<eb_in, eb_ws, eb_out>>
nd_vars == <<built, self, last_arg, x_caller, y_out, calls, max_seen>>
vars == <<fi_vars, eb_vars, nd_vars>>

(***************************************************************************)
(* Bounds of the model.                                                    *)
(***************************************************************************)
\* find_intervals: largest order, largest knot value, largest batch.
FiMaxOrder == 2
FiKnotMax == 2
FiMaxBatch == 2
\* eval_bases: largest order, largest knot value, largest batch.
EbMaxOrder == 2
EbKnotMax == 3
EbMaxBatch == 2
\* NDBPoly: most axes.
NdMaxDim == 2
\* Batch-size sequences: largest order, largest batch, most calls.
WsMaxOrder == 1
WsMaxBatch == 3
WsMaxCalls == 3
\* Boundary policies: largest order, most calls.
BcMaxOrder == 1
BcMaxCalls == 1
\* Query shapes: largest output dimension, largest order, longest shape,
\* largest extent.
ShMaxOut == 2
ShMaxOrder == 1
ShMaxRank == 3
ShMaxExtent == 3

(***************************************************************************)
(* Arrays.                                                                 *)
(***************************************************************************)
Size(a) == Cardinality(DOMAIN a)

\* a[i] with Python's index rule: a negative index counts from the end.
PyIdx(a, i) == IF i < 0 THEN a[i + Size(a)] ELSE a[i]

\* The 1-D arrays of length len with entries in S.
Arrays(len, S) == [0..(len - 1) -> S]

RECURSIVE NonDecFrom(_, _, _, _)
\* The non-decreasing arrays over lo..hi that extend prefix a to length len.
NonDecFrom(a, len, lo, hi) ==
    IF Size(a) = len THEN {a}
    ELSE UNION { NonDecFrom([i \in 0..Size(a) |-> IF i < Size(a) THEN a[i] ELSE v], len, v, hi)
                 : v \in lo..hi }

EmptyArr == [i \in {} |-> 0]

RECURSIVE PerColumnFrom(_, _)
PerColumnFrom(a, sets) ==
    IF Size(a) = Size(sets) THEN {a}
    ELSE UNION { PerColumnFrom([i \in 0..Size(a) |-> IF i < Size(a) THEN a[i] ELSE v], sets)
                 : v \in sets[Size(a)] }

\* The arrays a with a[c] in sets[c] for every column c.
PerColumn(sets) == PerColumnFrom(EmptyArr, sets)

\* Knot vectors of a spline of order k with n coefficients: length n+k+1,
\* non-decreasing, repeated knots allowed, values in 0..hi.
KnotVectors(n, k, hi) == NonDecFrom(EmptyArr, n + k + 1, 0, hi)

\* The coefficient count used with order k: two spans between t[k] and t[n].
NumCoef(k) == k + 2

\* Query batches of size s: values in the knot range and one step beyond
\* either end.  The kernels treat the columns of a batch independently, so
\* the batches are listed in non-decreasing order only.
Batches(s, hi) == NonDecFrom(EmptyArr, s, 0 - 1, hi + 1)

\* What np.empty leaves in an integer cell.
StaleInt == 77

(***************************************************************************)
(* find_intervals                                                          *)
(***************************************************************************)
\* TestCell with the span test closed at its upper end.
TestCellClosed(t, k, x, extrapolate, j, c) ==
    \/ (t[j] <= x[c] /\ x[c] <= t[j + 1])
    \/ (extrapolate /\ j = k /\ x[c] < t[k])
    \/ (extrapolate /\ j = Size(t) - 1 - k - 1 /\ PyIdx(t, 0 - k - 1) <= x[c])

\* line 71: test[j, c] = t[j] <= x[c] < t[j+1], then lines 73-75 with extrapolate.
TestCell(t, k, x, extrapolate, j, c) ==
    \/ (t[j] <= x[c] /\ x[c] < t[j + 1])
    \/ (extrapolate /\ j = k /\ x[c] < t[k])
    \/ (extrapolate /\ j = Size(t) - 1 - k - 1 /\ PyIdx(t, 0 - k - 1) <= x[c])

\* The rows np.where(test) reports for column c.
HitRows(t, k, x, extrapolate, c) ==
    { j \in 0..(Size(t) - 2) : TestCell(t, k, x, extrapolate, j, c) }

\* lines 70, 79-80: ell starts at -1; ell[where_test[1]] = where_test[0].  A
\* column hit in several rows is assigned several times, and NumPy leaves the
\* surviving value of a repeated-index assignment unspecified.
EllChoices(t, k, x, extrapolate) ==
    LET hits == [c \in DOMAIN x |-> HitRows(t, k, x, extrapolate, c)]
    IN  PerColumn([c \in DOMAIN x |-> IF hits[c] = {} THEN {0 - 1} ELSE hits[c]])

\* lines 57-62: the supplied workspace is used only if it is an integer array
\* with at least len(t) rows and s columns.
FiUsable(ws, t, s) ==
    /\ ws.kind = "int"
    /\ ws.rows >= Size(t)
    /\ ws.cols >= s

\* The workspace after the call: row 0 holds ell, rows 1..len(t)-1 hold test.
FiWorkspaceAfter(ws, t, k, x, extrapolate, ell) ==
    [ws EXCEPT !.cells =
        [rc \in DOMAIN ws.cells |->
            IF rc[2] >= Size(x) THEN ws.cells[rc]
            ELSE IF rc[1] = 0 THEN ell[rc[2]]
            ELSE IF rc[1] <= Size(t) - 1
                 THEN (IF TestCell(t, k, x, extrapolate, rc[1] - 1, rc[2]) THEN 1 ELSE 0)
            ELSE ws.cells[rc]]]

\* A workspace argument: None, or an array of the given dtype and shape.
Workspace(kind, rows, cols, fill) ==
    [kind |-> kind, rows |-> rows, cols |-> cols,
     cells |-> [rc \in (0..(rows - 1)) \X (0..(cols - 1)) |-> fill]]

NoWorkspace == Workspace("none", 0, 0, StaleInt)

\* The workspace arguments tried: none, an exact fit, a larger one, one row
\* short, and one of the wrong dtype.
FiWorkspaces(t, s) ==
    { NoWorkspace,
      Workspace("int", Size(t), s, StaleInt),
      Workspace("int", Size(t) + 1, s + 1, StaleInt),
      Workspace("int", Size(t) - 1, s, StaleInt),
      Workspace("float", Size(t), s, StaleInt) }

FiIdle == [status |-> "idle", returned |-> FALSE, ell |-> EmptyArr]

\* Not in use: the value of a kernel's variables while another specification runs.
Parked == <<>>

NdParked ==
    /\ built = Parked /\ self = Parked /\ last_arg = Parked /\ x_caller = Parked
    /\ y_out = Parked /\ calls = Parked /\ max_seen = Parked

\* A call of find_intervals about to run: any knot vector, batch, flag and
\* workspace argument of the model, or a 2-D x, which find_intervals refuses.
FiInit ==
    /\ \E k \in 0..FiMaxOrder, s \in 1..FiMaxBatch, e \in BOOLEAN, d \in {1, 2} :
        \E t \in KnotVectors(NumCoef(k), k, FiKnotMax), x \in Batches(s, FiKnotMax) :
          /\ d = 2 => (k = 0 /\ s = 1 /\ ~e)
          /\ fi_in = [t |-> t, k |-> k, n |-> NumCoef(k), x |-> x, x_ndim |-> d,
                      extrapolate |-> e]
          /\ fi_ws \in FiWorkspaces(t, s)
    /\ fi_out = FiIdle
    /\ eb_in = Parked /\ eb_ws = Parked /\ eb_out = Parked
    /\ NdParked

\* lines 51-52
FindIntervalsRaise ==
    /\ fi_out.status = "idle"
    /\ fi_in.x_ndim # 1
    /\ fi_out' = [FiIdle EXCEPT !.status = "ValueError"]
    /\ UNCHANGED <<fi_in, fi_ws, eb_vars, nd_vars>>

\* lines 54-83 with a usable workspace: ell is written to its row 0.
FindIntervalsInPlace ==
    /\ fi_out.status = "idle"
    /\ fi_in.x_ndim = 1
    /\ FiUsable(fi_ws, fi_in.t, Size(fi_in.x))
    /\ \E ell \in EllChoices(fi_in.t, fi_in.k, fi_in.x, fi_in.extrapolate) :
          /\ fi_ws' = FiWorkspaceAfter(fi_ws, fi_in.t, fi_in.k, fi_in.x, fi_in.extrapolate, ell)
          /\ fi_out' = [status |-> "ok", returned |-> FALSE, ell |-> ell]
    /\ UNCHANGED <<fi_in, eb_vars, nd_vars>>

\* lines 54-83 without one: a private array is allocated and ell is returned.
FindIntervalsReturn ==
    /\ fi_out.status = "idle"
    /\ fi_in.x_ndim = 1
    /\ ~FiUsable(fi_ws, fi_in.t, Size(fi_in.x))
    /\ \E ell \in EllChoices(fi_in.t, fi_in.k, fi_in.x, fi_in.extrapolate) :
          fi_out' = [status |-> "ok", returned |-> TRUE, ell |-> ell]
    /\ UNCHANGED <<fi_in, fi_ws, eb_vars, nd_vars>>

FiNext ==
    \/ FindIntervalsRaise
    \/ FindIntervalsInPlace
    \/ FindIntervalsReturn

SpecFI == FiInit /\ [][FiNext]_vars

(***************************************************************************)
(* Properties of find_intervals.                                           *)
(***************************************************************************)
FiDone == fi_out.status # "idle"

\* Query c lies in the domain [t[k], t[n]).
FiInDomain(c) == fi_in.t[fi_in.k] <= fi_in.x[c] /\ fi_in.x[c] < fi_in.t[fi_in.n]

\* C2: once find_intervals has run on a 1-D batch it has completed, and for
\* every query in [t[k], t[n]) the index it produced (returned, or left in row
\* 0 of the supplied workspace) is a span j with t[j] <= x < t[j+1]; it is the
\* only such span and it has non-zero width.
FiSpanBrackets ==
    (FiDone /\ fi_in.x_ndim = 1) =>
        /\ fi_out.status = "ok"
        /\ \A c \in DOMAIN fi_in.x :
              FiInDomain(c) =>
                LET e == fi_out.ell[c]
                IN  /\ e \in 0..(Size(fi_in.t) - 2)
                    /\ fi_in.t[e] <= fi_in.x[c]
                    /\ fi_in.x[c] < fi_in.t[e + 1]
                    /\ fi_in.t[e] < fi_in.t[e + 1]
                    /\ \A j \in 0..(Size(fi_in.t) - 2) :
                          (fi_in.t[j] <= fi_in.x[c] /\ fi_in.x[c] < fi_in.t[j + 1]) => j = e
                    /\ ~fi_out.returned => fi_ws.cells[<<0, c>>] = e

\* C2 witness: a completed call that wrote into a supplied workspace, with
\* extrapolation on, for a query in the domain that sits on a repeated knot.
FiSpanWitness ==
    /\ fi_out.status = "ok"
    /\ ~fi_out.returned
    /\ fi_in.extrapolate
    /\ \E c \in DOMAIN fi_in.x :
          /\ FiInDomain(c)
          /\ \E j \in 0..(Size(fi_in.t) - 2) :
                fi_in.t[j] = fi_in.x[c] /\ fi_in.t[j + 1] = fi_in.x[c]

\* C3: for every query outside [t[k], t[n]) find_intervals yields -1 without
\* extrapolation, and with it yields k below t[k] and n-1 at or above t[n].
FiOutOfDomain ==
    fi_out.status = "ok" =>
        \A c \in DOMAIN fi_in.x :
            ~FiInDomain(c) =>
                IF ~fi_in.extrapolate THEN fi_out.ell[c] = 0 - 1
                ELSE IF fi_in.x[c] < fi_in.t[fi_in.k] THEN fi_out.ell[c] = fi_in.k
                ELSE fi_out.ell[c] = fi_in.n - 1

(***************************************************************************)
(* Exact rationals <<num, den>> with den > 0, in lowest terms.             *)
(***************************************************************************)
Uninit == <<0, 0>>

Abs(a) == IF a < 0 THEN 0 - a ELSE a

RECURSIVE GCD(_, _)
GCD(a, b) == IF b = 0 THEN a ELSE GCD(b, a % b)

RNorm(num, den) ==
    IF den = 0 THEN Uninit
    ELSE LET g == GCD(Abs(num), Abs(den))
             sg == IF den < 0 THEN 0 - 1 ELSE 1
         IN  <<(sg * num) \div g, (sg * den) \div g>>

RInt(a) == <<a, 1>>
Zero == RInt(0)
One == RInt(1)

\* Arithmetic on an uninitialised cell gives an arbitrary value, kept as Uninit.
IsUninit(a) == a[2] = 0
RAdd(a, b) == IF IsUninit(a) \/ IsUninit(b) THEN Uninit
              ELSE RNorm(a[1] * b[2] + b[1] * a[2], a[2] * b[2])
RSub(a, b) == IF IsUninit(a) \/ IsUninit(b) THEN Uninit
              ELSE RNorm(a[1] * b[2] - b[1] * a[2], a[2] * b[2])
RMul(a, b) == IF IsUninit(a) \/ IsUninit(b) THEN Uninit
              ELSE RNorm(a[1] * b[1], a[2] * b[2])
\* a / d for an integer d # 0.
RDivInt(a, d) == IF IsUninit(a) THEN Uninit ELSE RNorm(a[1], a[2] * d)

(***************************************************************************)
(* eval_bases.  One column of the workspace is an array over its rows:     *)
(* u is rows 0..k, w rows k+1..2k, bounds rows 2k+1..2k+2 (lines 126-128). *)
(***************************************************************************)
URow(k, i) == i
WRow(k, i) == k + 1 + i
BRow(k, i) == 2 * k + 1 + i

\* lines 136-137: bounds[0] = t[ell+n], bounds[1] = t[ell+n-j].
SetBounds(col, t, k, ell, j, n) ==
    [col EXCEPT ![BRow(k, 0)] = RInt(PyIdx(t, ell + n)),
                ![BRow(k, 1)] = RInt(PyIdx(t, ell + n - j))]

\* lines 135-148: one pass of the inner loop of the value recursion.
ValueStep(col, t, k, x, ell, j, n) ==
    LET xb == PyIdx(t, ell + n)
        xa == PyIdx(t, ell + n - j)
        c1 == SetBounds(col, t, k, ell, j, n)
        tau == RDivInt(c1[WRow(k, n - 1)], xb - xa)
    IN  IF xb = xa
        THEN [c1 EXCEPT ![URow(k, n)] = Zero]
        ELSE [c1 EXCEPT ![URow(k, n - 1)] = RAdd(c1[URow(k, n - 1)], RMul(tau, RInt(xb - x))),
                        ![URow(k, n)] = RMul(tau, RInt(x - xa))]

\* lines 156-167: one pass of the inner loop of the difference recursion.
DiffStep(col, t, k, x, ell, j, n) ==
    LET xb == PyIdx(t, ell + n)
        xa == PyIdx(t, ell + n - j)
        c1 == SetBounds(col, t, k, ell, j, n)
        tau == RDivInt(RMul(RInt(j), c1[WRow(k, n - 1)]), xb - xa)
    IN  IF xb = xa
        THEN [c1 EXCEPT ![URow(k, n)] = Zero]
        ELSE [c1 EXCEPT ![URow(k, n - 1)] = RSub(c1[URow(k, n - 1)], tau),
                        ![URow(k, n)] = tau]

RECURSIVE InnerLoop(_, _, _, _, _, _, _, _)
\* for n in range(n, j+1): the value step (diff = FALSE) or the difference step.
InnerLoop(col, t, k, x, ell, j, n, diff) ==
    IF n > j THEN col
    ELSE InnerLoop(IF diff THEN DiffStep(col, t, k, x, ell, j, n)
                           ELSE ValueStep(col, t, k, x, ell, j, n),
                   t, k, x, ell, j, n + 1, diff)

\* lines 151, 169: w[:] = u[:k].copy()
CopyUToW(col, k) ==
    [r \in DOMAIN col |->
        IF r >= WRow(k, 0) /\ r <= WRow(k, k - 1) THEN col[r - (k + 1)] ELSE col[r]]

\* lines 133-151 (diff = FALSE) and 154-169 (diff = TRUE): the body for one j.
DegreePass(col, t, k, x, ell, j, diff) ==
    CopyUToW(InnerLoop([col EXCEPT ![URow(k, 0)] = Zero], t, k, x, ell, j, 1, diff), k)

RECURSIVE DegreeLoop(_, _, _, _, _, _, _, _)
\* for j in range(j, hi+1)
DegreeLoop(col, t, k, x, ell, j, hi, diff) ==
    IF j > hi THEN col
    ELSE DegreeLoop(DegreePass(col, t, k, x, ell, j, diff), t, k, x, ell, j + 1, hi, diff)

\* lines 130-169 on one column, for k >= 1: w[0] = 1, the value recursion for
\* j in range(1, k-nu+1), the difference recursion for j in range(k-nu+1, k+1).
EvalColumn(col, t, k, x, ell, nu) ==
    LET c0 == [col EXCEPT ![WRow(k, 0)] = One]
        c1 == DegreeLoop(c0, t, k, x, ell, 1, k - nu, FALSE)
    IN  DegreeLoop(c1, t, k, x, ell, k - nu + 1, k, TRUE)

\* line 127: w = workspace[k+1:2*k+1] has no row when k = 0, so line 130,
\* w[0,...] = 1.0, raises IndexError.
WIsEmpty(k) == 2 * k + 1 <= k + 1

\* lines 119-124: the supplied workspace is used only if it is a float array
\* with at least 2k+3 rows and s columns.
EbUsable(ws, k, s) ==
    /\ ws.kind = "float"
    /\ ws.rows >= 2 * k + 3
    /\ ws.cols >= s

\* The cells of workspace ws after lines 126-169 ran on its first s columns.
EbCellsAfter(ws, t, k, x, ell, nu) ==
    LET cols == [c \in DOMAIN x |->
                   EvalColumn([r \in 0..(ws.rows - 1) |-> ws.cells[<<r, c>>]],
                              t, k, x[c], ell[c], nu)]
    IN  [rc \in DOMAIN ws.cells |->
            IF rc[2] >= Size(x) THEN ws.cells[rc] ELSE cols[rc[2]][rc[1]]]

\* u = workspace[:k+1, :s]
UView(cells, k, s) == [rc \in (0..k) \X (0..(s - 1)) |-> cells[rc]]

\* A value left in a supplied workspace by an earlier use.
StaleFloat == <<7, 1>>

\* The workspace arguments tried: none, a larger one, and one row short.
EbWorkspaces(k, s) ==
    { Workspace("none", 0, 0, Uninit),
      Workspace("float", 2 * k + 4, s + 1, StaleFloat),
      Workspace("float", 2 * k + 2, s, StaleFloat) }

EbIdle == [status |-> "idle", returned |-> FALSE, u |-> EmptyArr]

\* A call of eval_bases about to run: any knot vector, batch, span in
\* k..n-1 per query, derivative order and workspace argument of the model, or
\* a 2-D x, which eval_bases refuses.
EbInit ==
    /\ \E k \in 0..EbMaxOrder, s \in 1..EbMaxBatch, d \in {1, 2} :
        \E t \in KnotVectors(NumCoef(k), k, EbKnotMax), x \in Batches(s, EbKnotMax),
           ell \in Arrays(s, k..(NumCoef(k) - 1)), nu \in 0..(k + 2) :
          /\ d = 2 => (k = 1 /\ s = 1 /\ nu = 0)
          /\ eb_in = [t |-> t, k |-> k, n |-> NumCoef(k), x |-> x, x_ndim |-> d,
                      ell |-> ell, nu |-> nu]
          /\ eb_ws \in EbWorkspaces(k, s)
    /\ eb_out = EbIdle
    /\ fi_in = Parked /\ fi_ws = Parked /\ fi_out = Parked
    /\ NdParked

\* lines 113-114
EvalBasesRaise ==
    /\ eb_out.status = "idle"
    /\ eb_in.x_ndim # 1
    /\ eb_out' = [EbIdle EXCEPT !.status = "ValueError"]
    /\ UNCHANGED <<eb_in, eb_ws, fi_vars, nd_vars>>

\* lines 116-130 for k = 0: the slices are taken and w[0,...] = 1.0 raises.
EvalBasesIndexError ==
    /\ eb_out.status = "idle"
    /\ eb_in.x_ndim = 1
    /\ WIsEmpty(eb_in.k)
    /\ eb_out' = [EbIdle EXCEPT !.status = "IndexError"]
    /\ UNCHANGED <<eb_in, eb_ws, fi_vars, nd_vars>>

\* lines 116-172 with a usable workspace: u is left in its first k+1 rows.
EvalBasesInPlace ==
    /\ eb_out.status = "idle"
    /\ eb_in.x_ndim = 1
    /\ ~WIsEmpty(eb_in.k)
    /\ EbUsable(eb_ws, eb_in.k, Size(eb_in.x))
    /\ LET cells == EbCellsAfter(eb_ws, eb_in.t, eb_in.k, eb_in.x, eb_in.ell, eb_in.nu)
       IN  /\ eb_ws' = [eb_ws EXCEPT !.cells = cells]
           /\ eb_out' = [status |-> "ok", returned |-> FALSE,
                         u |-> UView(cells, eb_in.k, Size(eb_in.x))]
    /\ UNCHANGED <<eb_in, fi_vars, nd_vars>>

\* lines 116-172 without one: np.empty((2k+3, s)) is allocated and u returned.
EvalBasesReturn ==
    /\ eb_out.status = "idle"
    /\ eb_in.x_ndim = 1
    /\ ~WIsEmpty(eb_in.k)
    /\ ~EbUsable(eb_ws, eb_in.k, Size(eb_in.x))
    /\ LET fresh == Workspace("float", 2 * eb_in.k + 3, Size(eb_in.x), Uninit)
           cells == EbCellsAfter(fresh, eb_in.t, eb_in.k, eb_in.x, eb_in.ell, eb_in.nu)
       IN  eb_out' = [status |-> "ok", returned |-> TRUE,
                      u |-> UView(cells, eb_in.k, Size(eb_in.x))]
    /\ UNCHANGED <<eb_in, eb_ws, fi_vars, nd_vars>>

EbNext ==
    \/ EvalBasesRaise
    \/ EvalBasesIndexError
    \/ EvalBasesInPlace
    \/ EvalBasesReturn

SpecEB == EbInit /\ [][EbNext]_vars

(***************************************************************************)
(* Properties of eval_bases.                                               *)
(***************************************************************************)
EbDone == eb_out.status # "idle"

\* ell[c] is the span of query c: t[ell] <= x < t[ell+1].
EbValidSpan(c) ==
    /\ eb_in.t[eb_in.ell[c]] <= eb_in.x[c]
    /\ eb_in.x[c] < eb_in.t[eb_in.ell[c] + 1]

\* Query c lies strictly inside the domain.
EbInside(c) == eb_in.t[eb_in.k] < eb_in.x[c] /\ eb_in.x[c] < eb_in.t[eb_in.n]

RECURSIVE ColumnSum(_, _, _)
\* u[0, c] + ... + u[row, c]
ColumnSum(u, row, c) ==
    IF row < 0 THEN Zero ELSE RAdd(u[<<row, c>>], ColumnSum(u, row - 1, c))

\* Every query of the call has its valid span.
EbAllValid == \A c \in DOMAIN eb_in.x : EbValidSpan(c)

\* The result is (k+1, s) and every entry is zero.
EbAllZero ==
    /\ DOMAIN eb_out.u = (0..eb_in.k) \X (0..(Size(eb_in.x) - 1))
    /\ \A rc \in DOMAIN eb_out.u : eb_out.u[rc] = Zero

\* C8: for every order k >= 0 and nu > k, with valid spans, eval_bases
\* completes without raising and its (k+1, s) result is zero in every entry.
EbZeroAboveOrder ==
    (EbDone /\ eb_in.x_ndim = 1 /\ eb_in.nu > eb_in.k /\ EbAllValid) =>
        (eb_out.status = "ok" /\ EbAllZero)

\* C8 for orders k >= 1 only.
EbZeroAboveOrderFromOne ==
    (EbDone /\ eb_in.x_ndim = 1 /\ eb_in.nu > eb_in.k /\ EbAllValid /\ eb_in.k >= 1) =>
        (eb_out.status = "ok" /\ EbAllZero)

\* C9: for every order k >= 0, with nu = 0, the k+1 values of every query
\* strictly inside the domain with its span sum to 1.
EbPartitionOfUnity ==
    (EbDone /\ eb_in.x_ndim = 1 /\ eb_in.nu = 0) =>
        \A c \in DOMAIN eb_in.x :
            (EbInside(c) /\ EbValidSpan(c)) =>
                (eb_out.status = "ok" /\ ColumnSum(eb_out.u, eb_in.k, c) = One)

\* C9 for orders k >= 1 only.
EbPartitionOfUnityFromOne ==
    (EbDone /\ eb_in.x_ndim = 1 /\ eb_in.nu = 0 /\ eb_in.k >= 1) =>
        \A c \in DOMAIN eb_in.x :
            (EbInside(c) /\ EbValidSpan(c)) =>
                (eb_out.status = "ok" /\ ColumnSum(eb_out.u, eb_in.k, c) = One)

(***************************************************************************)
(* NDBPoly.  Per-axis collections are arrays over the axes 0..ndim-1.  A   *)
(* multi-index is an array over the axes.  Every buffer carries gen, the   *)
(* number of times it was allocated: a new gen is a new array object.      *)
(***************************************************************************)
Max(S) == CHOOSE m \in S : \A y \in S : y <= m
Min2(a, b) == IF a < b THEN a ELSE b

\* The multi-indices below the per-axis sizes: np.ndindex(sizes).
MultiIdx(sizes) == PerColumn([i \in DOMAIN sizes |-> 0..(sizes[i] - 1)])

\* The index set of cc_sel, shape (ndim,) + tuple(orders+1) + (cap,).
CcIndex(orders, cap) ==
    (DOMAIN orders) \X MultiIdx([i \in DOMAIN orders |-> orders[i] + 1]) \X (0..(cap - 1))

\* np.empty((cap,), dtype=np.int_): lines 224, 273.
NewEllWork(gen, cap) == [gen |-> gen, cells |-> [q \in 0..(cap - 1) |-> StaleInt]]

\* np.empty((cap, 2*k+3), dtype=np.float_): lines 227, 276.
NewEvalWork(gen, cap, k) ==
    [gen |-> gen, rows |-> cap, cols |-> 2 * k + 3,
     cells |-> [qj \in (0..(cap - 1)) \X (0..(2 * k + 2)) |-> Uninit]]

\* np.empty((d0, d1, d2), dtype=np.float_): lines 211, 278.
NewUus(gen, d0, d1, d2) ==
    [gen |-> gen, d0 |-> d0, d1 |-> d1, d2 |-> d2,
     cells |-> [iab \in (0..(d0 - 1)) \X (0..(d1 - 1)) \X (0..(d2 - 1)) |-> Uninit]]

\* np.empty(c_shape_base + (cap,), dtype=np.int_): lines 212, 279.
NewCcSel(gen, orders, cap) ==
    [gen |-> gen, cap |-> cap, cells |-> [ioq \in CcIndex(orders, cap) |-> StaleInt]]

\* lines 192-227: __init__.  knots_vec[i] is the knot line of axis i
\* (lines 215-221); coeffs has shape (mdim, n_0, ..., n_{ndim-1}).
NewEvaluator(knots_vec, coeffs, mdim, orders, periodic, extrapolate) ==
    LET ndim == Size(knots_vec)
        maxk == Max({orders[i] : i \in DOMAIN orders})
    IN  [knots_vec |-> knots_vec, coeffs |-> coeffs, ndim |-> ndim, mdim |-> mdim,
         orders |-> orders, periodic |-> periodic, extrapolate |-> extrapolate,
         cur_max_x_size |-> 1,
         uus |-> NewUus(1, ndim, maxk + 1, 1),
         cc_sel |-> NewCcSel(1, orders, 1),
         ell_work |-> [i \in 0..(ndim - 1) |-> NewEllWork(1, 1)],
         eval_work |-> [i \in 0..(ndim - 1) |-> NewEvalWork(1, 1, orders[i])]]

\* line 269: the buffers are replaced when the batch exceeds the capacity.
MustGrow(cur, p) == cur < p

\* lines 268-279: check_workspace_shapes for a batch of p points.
CheckWorkspaceShapes(ev, p) ==
    IF MustGrow(ev.cur_max_x_size, p)
    THEN LET maxk == Max({ev.orders[i] : i \in DOMAIN ev.orders})
         IN  [ev EXCEPT
                !.cur_max_x_size = p,
                !.ell_work = [i \in DOMAIN @ |-> NewEllWork(@[i].gen + 1, p)],
                !.eval_work = [i \in DOMAIN @ |-> NewEvalWork(@[i].gen + 1, p, ev.orders[i])],
                !.uus = NewUus(@.gen + 1, ev.ndim, p, maxk + 1),
                !.cc_sel = NewCcSel(@.gen + 1, ev.orders, p)]
    ELSE ev

\* line 245: t[k] + (x - t[k]) % (t[n] - t[k]) with n = t.size - k - 1.
PeriodicWrap(t, k, v) ==
    LET n == Size(t) - k - 1
    IN  t[k] + ((v - t[k]) % (t[n] - t[k]))

\* lines 249-251: below t[k] the value becomes t[k] unless the lower flag is set.
ClampLower(flag, t, k, v) == IF ~flag /\ v < t[k] THEN t[k] ELSE v

\* lines 252-254: above t[-k-1] the value becomes t[-k-1] unless the upper flag is set.
ClampUpper(flag, t, k, v) ==
    IF ~flag /\ PyIdx(t, 0 - k - 1) < v THEN PyIdx(t, 0 - k - 1) ELSE v

\* lines 243-255 on one coordinate of axis i.
BoundaryPolicy(ev, i, v) ==
    LET t == ev.knots_vec[i]
        k == ev.orders[i]
    IN  IF ev.periodic[i] THEN PeriodicWrap(t, k, v)
        ELSE ClampUpper(ev.extrapolate[<<i, 1>>], t, k,
                        ClampLower(ev.extrapolate[<<i, 0>>], t, k, v))

\* lines 246, 255: the flag handed to evaluate_spline.
ExtrapolateFlag(ev, i) == ~ev.periodic[i]

\* scipy_bspl.evaluate_spline, interval part: the span of v, the end span when
\* v is outside [t[k], t[n]) and extrapolate is set, else -1.
Locate(t, k, v, extrapolate) ==
    LET n == Size(t) - k - 1
    IN  IF t[k] <= v /\ v < t[n]
        THEN CHOOSE j \in k..(n - 1) : t[j] <= v /\ v < t[j + 1]
        ELSE IF ~extrapolate THEN 0 - 1
        ELSE IF v < t[k] THEN k ELSE n - 1

\* scipy_bspl.evaluate_spline, basis part: the k+1 values of the nu-th
\* derivative of the basis functions that are non-zero on span ell.
Basis(t, k, v, ell, nu) ==
    IF ell < 0 THEN [j \in 0..k |-> Uninit]
    ELSE IF k = 0 THEN [j \in 0..0 |-> IF nu = 0 THEN One ELSE Zero]
    ELSE LET col == EvalColumn([r \in 0..(2 * k + 2) |-> Uninit], t, k, v, ell, nu)
         IN  [j \in 0..k |-> col[j]]

\* evaluate_spline's outputs stored: the spans in ell_work[i][:p], the basis
\* values in eval_work[i][:p, :k+1]; the other cells keep their content.
StoreSpline(ev, i, p, k, ell, bas) ==
    [ev EXCEPT
       !.ell_work[i].cells = [q \in DOMAIN @ |-> IF q < p THEN ell[q] ELSE @[q]],
       !.eval_work[i].cells =
           [qj \in DOMAIN @ |->
               IF qj[1] < p /\ qj[2] <= k THEN bas[qj[1]][qj[2]] ELSE @[qj]]]

\* The basis values of the queries of row on the spans ell.
BasisRows(t, k, row, p, ell, nu) ==
    [q \in 0..(p - 1) |-> Basis(t, k, row[q], ell[q], nu)]

\* The spans of the queries of row.
LocateRows(t, k, row, p, extrapolate) ==
    [q \in 0..(p - 1) |-> Locate(t, k, row[q], extrapolate)]

\* evaluate_spline on knot line t of order k, the spans being ell.
SplineOn(ev, i, t, k, row, p, ell, nu) ==
    StoreSpline(ev, i, p, k, ell, BasisRows(t, k, row, p, ell, nu))

\* line 260 on axis i: evaluate_spline leaves the spans of the p queries in
\* ell_work[i][:p] and their basis values in eval_work[i][:p, :k+1].
EvaluateSpline(ev, i, row, p, nu) ==
    SplineOn(ev, i, ev.knots_vec[i], ev.orders[i], row, p,
             LocateRows(ev.knots_vec[i], ev.orders[i], row, p, ExtrapolateFlag(ev, i)), nu)

\* line 264: uus[i, :p, :k+1] has shape (min(p, d1), min(k+1, d2)); the
\* (p, k+1) block of eval_work[i] can be stored in it only if it is as large.
UusFits(uus, p, k) == p <= uus.d1 /\ k + 1 <= uus.d2

\* lines 264-265: uus[i, :p, :k+1] = eval_work[i][:p, :k+1] and
\* cc_sel[i, ..., :p] = offsets[i] + (ell_work[i][:p] - k) on evaluator ev1,
\* x1 being the array after the boundary policy.
AxisStore(ev1, x1, i, p, k) ==
    IF ~UusFits(ev1.uus, p, k)
    THEN [ev |-> ev1, x |-> x1, status |-> "ValueError", stage |-> "uus_assign"]
    ELSE [ev |-> [ev1 EXCEPT
                    !.uus.cells =
                        [iab \in DOMAIN @ |->
                            IF iab[1] = i /\ iab[2] < p /\ iab[3] <= k
                            THEN ev1.eval_work[i].cells[<<iab[2], iab[3]>>]
                            ELSE @[iab]],
                    !.cc_sel.cells =
                        [ioq \in DOMAIN @ |->
                            IF ioq[1] = i /\ ioq[3] < p
                            THEN ioq[2][i] + ev1.ell_work[i].cells[ioq[3]] - k
                            ELSE @[ioq]]],
          x |-> x1, status |-> "ok", stage |-> "axes"]

\* lines 243-260 on axis i: row is x[i, :] after the boundary policy, which
\* is written back into x, and evaluate_spline runs on it.
AxisEvaluate(st, row, i, p, nu) ==
    AxisStore(EvaluateSpline(st.ev, i, row, p, nu),
              [iq \in DOMAIN st.x |-> IF iq[1] = i THEN row[iq[2]] ELSE st.x[iq]],
              i, p, st.ev.orders[i])

\* lines 239-265: the body of the loop of get_us_and_cc_sel for axis i.  st is
\* the evaluator, the (ndim, p) array x and the status so far.
AxisStep(st, i, p, nu) ==
    AxisEvaluate(st, [q \in 0..(p - 1) |-> BoundaryPolicy(st.ev, i, st.x[<<i, q>>])], i, p, nu)

RECURSIVE AxisLoop(_, _, _, _)
\* lines 239-266: for i in range(i, ndim), stopping at the first exception.
AxisLoop(st, i, p, nus) ==
    IF i >= st.ev.ndim \/ st.status # "ok" THEN st
    ELSE AxisLoop(AxisStep(st, i, p, nus[i]), i + 1, p, nus)

\* An index c into an axis of length len is valid from -len to len-1.
IndexOk(c, len) == 0 - len <= c /\ c < len
PyNorm(c, len) == IF c < 0 THEN c + len ELSE c

\* line 297: self.coeffs[(slice(None),) + tuple(cc_sel)] is in range.
GatherOk(ev, p) ==
    \A ioq \in CcIndex(ev.orders, p) :
        IndexOk(ev.cc_sel.cells[ioq], ev.coeffs.shape[ioq[1]])

\* line 297: ccs[m, o, q] = coeffs[m, cc_sel[0][o, q], ..., cc_sel[ndim-1][o, q]].
Gather(ev, p) ==
    [moq \in (0..(ev.mdim - 1)) \X MultiIdx([i \in DOMAIN ev.orders |-> ev.orders[i] + 1])
             \X (0..(p - 1)) |->
        ev.coeffs.cells[<<moq[1],
                          [i \in DOMAIN ev.orders |->
                              PyNorm(ev.cc_sel.cells[<<i, moq[2], moq[3]>>], ev.coeffs.shape[i])]>>]]

\* The common length of two broadcast dimensions; 0 when they do not broadcast.
Broadcast2(a, b) == IF a = b THEN a ELSE IF a = 1 THEN b ELSE IF b = 1 THEN a ELSE 0

RECURSIVE SumFn(_)
\* The sum of the values of f.
SumFn(f) ==
    IF DOMAIN f = {} THEN Zero
    ELSE LET e == CHOOSE e \in DOMAIN f : TRUE
         IN  RAdd(f[e], SumFn([d \in (DOMAIN f) \ {e} |-> f[d]]))

RECURSIVE ProdFn(_)
\* The product of the values of f.
ProdFn(f) ==
    IF DOMAIN f = {} THEN One
    ELSE LET e == CHOOSE e \in DOMAIN f : TRUE
         IN  RMul(f[e], ProdFn([d \in (DOMAIN f) \ {e} |-> f[d]]))

\* line 266: uus[..., :p] has shape (ndim, d1, min(d2, p)).
UusViewLast(ev, p) == Min2(ev.uus.d2, p)

\* lines 303-305: the length of the "..." axis of the einsum: ccs brings p,
\* every uus[i] brings d1.
EinsumBatch(ev, p) == Broadcast2(p, ev.uus.d1)

\* lines 303-305: the length of label i+1: ccs brings k_i + 1, uus[i] brings
\* the last axis of the view (einsum broadcasts a length of 1).
EinsumLabel(ev, p, i) == Broadcast2(ev.orders[i] + 1, UusViewLast(ev, p))

EinsumOk(ev, p) ==
    /\ EinsumBatch(ev, p) # 0
    /\ \A i \in DOMAIN ev.orders : EinsumLabel(ev, p, i) # 0

\* lines 303-305: y[m, b] = sum over the labels o of
\* ccs[m, o, b] * uus[0][b, o_0] * ... * uus[ndim-1][b, o_{ndim-1}].
Einsum(ev, ccs, p) ==
    LET labels == [i \in DOMAIN ev.orders |-> EinsumLabel(ev, p, i)]
        pick(len, j) == IF len = 1 THEN 0 ELSE j
    IN  [mb \in (0..(ev.mdim - 1)) \X (0..(EinsumBatch(ev, p) - 1)) |->
            SumFn([o \in MultiIdx(labels) |->
                RMul(RInt(ccs[<<mb[1],
                               [i \in DOMAIN ev.orders |-> pick(ev.orders[i] + 1, o[i])],
                               pick(p, mb[2])>>]),
                     ProdFn([i \in DOMAIN ev.orders |->
                               ev.uus.cells[<<i, pick(ev.uus.d1, mb[2]),
                                              pick(UusViewLast(ev, p), o[i])>>]]))])]

RECURSIVE SeqProduct(_)
\* The number of elements of an array of shape sh.
SeqProduct(sh) == IF sh = <<>> THEN 1 ELSE Head(sh) * SeqProduct(Tail(sh))

\* line 307: the shape y_out is reshaped to.
OutShape(mdim, x_shape) ==
    IF Len(x_shape) # 1 THEN <<mdim>> \o Tail(x_shape) ELSE x_shape

Raised(status, stage) ==
    [status |-> status, stage |-> stage, shape |-> <<>>, data |-> EmptyArr]

\* lines 306-308: y_out of shape (mdim, bc) reshaped to the output shape.
Reshape(y, mdim, bc, target) ==
    IF SeqProduct(target) # mdim * bc THEN Raised("ValueError", "reshape_y")
    ELSE [status |-> "ok", stage |-> "done", shape |-> target,
          data |-> [f \in 0..(mdim * bc - 1) |-> y[<<f \div bc, f % bc>>]]]

\* lines 295-308: after get_us_and_cc_sel succeeded.
Contract(ev, x_shape, p) ==
    IF ~GatherOk(ev, p) THEN Raised("IndexError", "gather")
    ELSE IF ~EinsumOk(ev, p) THEN Raised("ValueError", "einsum")
    ELSE Reshape(Einsum(ev, Gather(ev, p), p), ev.mdim, EinsumBatch(ev, p),
                 OutShape(ev.mdim, x_shape))

\* lines 295-308 after get_us_and_cc_sel ended in st: the evaluator, the
\* elements of the (ndim, p) array the call worked on, p, and what is returned.
Finish(st, arg, total, p) ==
    [ev |-> st.ev,
     xdata |-> [f \in 0..(total - 1) |-> st.x[<<f \div p, f % p>>]],
     batch |-> p,
     out |-> IF st.status # "ok" THEN Raised(st.status, st.stage)
             ELSE Contract(st.ev, arg.shape, p)]

\* lines 290-293: x reshaped to (ndim, p), the workspaces checked, and the
\* axes processed.
Reshaped(ev, arg, total, p) ==
    Finish(AxisLoop([ev |-> CheckWorkspaceShapes(ev, p),
                     x |-> [iq \in (0..(ev.ndim - 1)) \X (0..(p - 1)) |->
                               arg.data[iq[1] * p + iq[2]]],
                     status |-> "ok", stage |-> "axes"],
                    0, p, [i \in 0..(ev.ndim - 1) |-> arg.nus]),
           arg, total, p)

\* lines 289-308: __call__(x, nus) on evaluator ev.  arg.shape and arg.data
\* are x's shape and elements in C order, arg.contig says whether x is a
\* C-contiguous float array, arg.nus is the scalar nus.  The reshape of line
\* 290 fails when the number of elements is not a multiple of ndim (batch 0).
CallEffect(ev, arg) ==
    IF SeqProduct(arg.shape) % ev.ndim # 0
    THEN [ev |-> ev, xdata |-> arg.data, batch |-> 0,
          out |-> Raised("ValueError", "reshape_x")]
    ELSE Reshaped(ev, arg, SeqProduct(arg.shape), SeqProduct(arg.shape) \div ev.ndim)

\* line 290: np.ascontiguousarray(x.reshape((ndim, -1)), dtype=np.float_) is
\* x's own memory when x is a C-contiguous float array, a copy otherwise.
SharesMemory(arg) == arg.contig

\* The effects of a call with outcome r on the evaluator, the caller's array
\* and the result.
Returns(r, arg) ==
    /\ self' = r.ev
    /\ x_caller' = IF SharesMemory(arg) THEN r.xdata ELSE arg.data
    /\ y_out' = r.out
    /\ max_seen' = Max({max_seen, r.batch})

\* __call__ as one step: the evaluator, the caller's array and the result.
Call(arg, limit) ==
    /\ calls < limit
    /\ Returns(CallEffect(self, arg), arg)
    /\ last_arg' = arg
    /\ calls' = calls + 1
    /\ UNCHANGED <<built, fi_vars, eb_vars>>

(***************************************************************************)
(* Evaluators and arguments of the model.                                  *)
(***************************************************************************)
\* Knots 0, 1, 2, ... : the end knots are not repeated.
UniformKnots(k) == [j \in 0..(NumCoef(k) + k) |-> j]

\* The first and last knot repeated k+1 times, unit spans between.
ClampedKnots(k) ==
    [j \in 0..(NumCoef(k) + k) |->
        IF j <= k THEN 0 ELSE IF j >= NumCoef(k) THEN NumCoef(k) - k ELSE j - k]

RECURSIVE IntSum(_)
IntSum(f) ==
    IF DOMAIN f = {} THEN 0
    ELSE LET e == CHOOSE e \in DOMAIN f : TRUE
         IN  f[e] + IntSum([d \in (DOMAIN f) \ {e} |-> f[d]])

\* A coefficient tensor of shape (mdim, n_0, ..., n_{ndim-1}) that is not
\* linear along any axis.
SampleCoeffs(mdim, shape) ==
    [shape |-> shape,
     cells |-> [mi \in (0..(mdim - 1)) \X MultiIdx(shape) |->
                  1 + mi[1] + IntSum([i \in DOMAIN shape |-> (2 * i + 1) * mi[2][i] * mi[2][i]])]]

\* NDBPoly(knots, coeffs, orders, periodic, extrapolate) with the sample
\* coefficients for the given knot lines.
Build(knots_vec, mdim, orders, periodic, extrapolate) ==
    NewEvaluator(knots_vec,
                 SampleCoeffs(mdim, [i \in DOMAIN knots_vec |-> Size(knots_vec[i]) - orders[i] - 1]),
                 mdim, orders, periodic, extrapolate)

\* The per-axis policies: periodic, or extrapolate flags (lower, upper).
Policies == { [periodic |-> TRUE, lo |-> FALSE, hi |-> FALSE] }
            \cup { [periodic |-> FALSE, lo |-> l, hi |-> h] : l, h \in BOOLEAN }

Free == [periodic |-> FALSE, lo |-> TRUE, hi |-> TRUE]

\* The evaluator with the given knot line, order and policy on every axis.
Evaluator(knots_vec, mdim, orders, pol) ==
    Build(knots_vec, mdim, orders,
          [i \in DOMAIN orders |-> pol[i].periodic],
          [ie \in (DOMAIN orders) \X {0, 1} |-> IF ie[2] = 0 THEN pol[ie[1]].lo ELSE pol[ie[1]].hi])

NdStart(ev) ==
    /\ self = ev
    /\ built = [knots_vec |-> ev.knots_vec, coeffs |-> ev.coeffs]
    /\ last_arg = [shape |-> <<>>, data |-> EmptyArr, contig |-> TRUE, nus |-> 0]
    /\ x_caller = EmptyArr
    /\ y_out = Raised("none", "none")
    /\ calls = 0
    /\ max_seen = 0
    /\ fi_in = Parked /\ fi_ws = Parked /\ fi_out = Parked
    /\ eb_in = Parked /\ eb_ws = Parked /\ eb_out = Parked

\* Batch-size sequences: evaluators of any orders with free extrapolation, and
\* (ndim, p) batches of in-domain points.
WsInit ==
    \E ndim \in 1..NdMaxDim :
      \E orders \in Arrays(ndim, 0..WsMaxOrder) :
        NdStart(Evaluator([i \in 0..(ndim - 1) |-> ClampedKnots(orders[i])], 1, orders,
                          [i \in 0..(ndim - 1) |-> Free]))

WsArgs(ev) ==
    { [shape |-> <<ev.ndim, p>>, data |-> [f \in 0..(ev.ndim * p - 1) |-> f % 2],
       contig |-> TRUE, nus |-> 0] : p \in 1..WsMaxBatch }

WsCall == \E arg \in WsArgs(self) : Call(arg, WsMaxCalls)

SpecWS == WsInit /\ [][WsCall]_vars

\* Boundary policies: evaluators of one order on every axis, any policy on
\* the last axis, and batches whose first point has any last coordinate from
\* below the first knot to above the last.
BcInit ==
    \E ndim \in 1..NdMaxDim, k \in 0..BcMaxOrder, pol \in Policies :
      \E t \in {UniformKnots(k), ClampedKnots(k)} :
        NdStart(Evaluator([i \in 0..(ndim - 1) |-> t], 1, [i \in 0..(ndim - 1) |-> k],
                          [i \in 0..(ndim - 1) |-> IF i = ndim - 1 THEN pol ELSE Free]))

BcArgs(ev) ==
    LET last == ev.ndim - 1
        k == ev.orders[last]
        t == ev.knots_vec[last]
    IN  { [shape |-> <<ev.ndim, p>>,
           data |-> [f \in 0..(ev.ndim * p - 1) |-> IF f = last * p THEN v ELSE t[k]],
           contig |-> c, nus |-> nu] :
          p \in {1, k + 1}, v \in (t[0] - 1)..(t[Size(t) - 1] + 1), c \in BOOLEAN, nu \in 0..1 }

BcCall == \E arg \in BcArgs(self) : Call(arg, BcMaxCalls)

SpecBC == BcInit /\ [][BcCall]_vars

RECURSIVE ShapesOf(_, _)
\* The shapes of rank up to rank with extents 1..ext.
ShapesOf(rank, ext) ==
    IF rank = 0 THEN {}
    ELSE ShapesOf(rank - 1, ext) \cup [1..rank -> 1..ext]

\* Query shapes: evaluators with ndim axes and mdim outputs, and coordinate
\* arrays of any shape.
ShInit ==
    \E ndim \in 1..NdMaxDim, mdim \in 1..ShMaxOut, k \in 0..ShMaxOrder :
        NdStart(Evaluator([i \in 0..(ndim - 1) |-> ClampedKnots(k)], mdim,
                          [i \in 0..(ndim - 1) |-> k], [i \in 0..(ndim - 1) |-> Free]))

ShArgs ==
    { [shape |-> sh, data |-> [f \in 0..(SeqProduct(sh) - 1) |-> f % 2],
       contig |-> TRUE, nus |-> 0] : sh \in ShapesOf(ShMaxRank, ShMaxExtent) }

ShCall == \E arg \in ShArgs : Call(arg, 1)

SpecSH == ShInit /\ [][ShCall]_vars

(***************************************************************************)
(* Properties of NDBPoly.                                                  *)
(***************************************************************************)
\* The evaluator as constructed: the same knots, coefficients, orders and
\* flags, and the workspaces of __init__.
Fresh ==
    NewEvaluator(built.knots_vec, built.coeffs, self.mdim, self.orders,
                 self.periodic, self.extrapolate)

\* C1: workspace-size independence.  Whatever batches were evaluated before,
\* the last call completed and returned what the same batch returns on a
\* freshly constructed evaluator.
WsSameAsFresh ==
    calls > 0 =>
        /\ y_out.status = "ok"
        /\ y_out = CallEffect(Fresh, last_arg).out

\* The batch capacity of the buffers of ev: ell_work[i] has cap cells,
\* eval_work[i] cap rows, cc_sel cap columns, and uus cap rows on the axis
\* that lines 264 and 278 index by the batch.
WsCapacityIs(ev, cap) ==
    /\ \A i \in DOMAIN ev.ell_work : Size(ev.ell_work[i].cells) = cap
    /\ \A i \in DOMAIN ev.eval_work : ev.eval_work[i].rows = cap
    /\ ev.cc_sel.cap = cap
    /\ ev.uus.d1 = cap

\* Every buffer of new is another array object than that of old.
WsReallocated(old, new) ==
    /\ \A i \in DOMAIN old.ell_work : new.ell_work[i].gen # old.ell_work[i].gen
    /\ \A i \in DOMAIN old.eval_work : new.eval_work[i].gen # old.eval_work[i].gen
    /\ new.uus.gen # old.uus.gen
    /\ new.cc_sel.gen # old.cc_sel.gen

\* Every buffer of new is the array object of old.
WsKept(old, new) ==
    /\ \A i \in DOMAIN old.ell_work : new.ell_work[i].gen = old.ell_work[i].gen
    /\ \A i \in DOMAIN old.eval_work : new.eval_work[i].gen = old.eval_work[i].gen
    /\ new.uus.gen = old.uus.gen
    /\ new.cc_sel.gen = old.cc_sel.gen

\* The capacity rule of a call without the capacity of uus.
WsGrowthStep ==
    /\ self'.cur_max_x_size >= self.cur_max_x_size
    /\ self'.cur_max_x_size = Max({1, max_seen'})
    /\ IF last_arg'.shape[2] > self.cur_max_x_size
       THEN WsReallocated(self, self')
       ELSE WsKept(self, self')
    /\ \A i \in DOMAIN self'.ell_work :
          /\ Size(self'.ell_work[i].cells) = self'.cur_max_x_size
          /\ self'.eval_work[i].rows = self'.cur_max_x_size
    /\ self'.cc_sel.cap = self'.cur_max_x_size

\* Every call follows WsGrowthStep.
WsGrowthPolicy == [][WsGrowthStep]_vars

\* C6: across the calls on one evaluator cur_max_x_size never decreases and
\* is max(1, largest batch so far); the buffers are reallocated by a call
\* exactly when its batch exceeds the capacity before it; and after the call
\* the batch capacity of every buffer is cur_max_x_size.
WsWorkspacePolicy ==
    [][/\ self'.cur_max_x_size >= self.cur_max_x_size
       /\ self'.cur_max_x_size = Max({1, max_seen'})
       /\ IF last_arg'.shape[2] > self.cur_max_x_size
          THEN WsReallocated(self, self')
          ELSE WsKept(self, self')
       /\ WsCapacityIs(self', self'.cur_max_x_size)]_vars

\* The axis the boundary scenarios vary, the batch of the last call, the
\* coordinate varied, and the bounds t[k] and t[n] of that axis.
BcAxis == self.ndim - 1
BcBatch == last_arg.shape[2]
BcCoord == last_arg.data[BcAxis * BcBatch]
BcLower == self.knots_vec[BcAxis][self.orders[BcAxis]]
BcUpper ==
    self.knots_vec[BcAxis][Size(self.knots_vec[BcAxis]) - self.orders[BcAxis] - 1]

\* The last call's argument with the varied coordinate set to v.
BcAt(v) == [last_arg EXCEPT !.data[BcAxis * BcBatch] = v]

\* The last call had its coordinate above t[n] (below t[k]) on a non-periodic
\* axis whose upper (lower) extrapolate flag is false.
BcAboveUpper ==
    /\ calls > 0
    /\ ~self.periodic[BcAxis] /\ ~self.extrapolate[<<BcAxis, 1>>]
    /\ BcCoord > BcUpper
BcBelowLower ==
    /\ calls > 0
    /\ ~self.periodic[BcAxis] /\ ~self.extrapolate[<<BcAxis, 0>>]
    /\ BcCoord < BcLower

\* A call beyond a clamped bound ends as the call at the bound ends, be it
\* with an output or with an exception.
BcClampSameOutcome ==
    /\ BcAboveUpper => y_out = CallEffect(Fresh, BcAt(BcUpper)).out
    /\ BcBelowLower => y_out = CallEffect(Fresh, BcAt(BcLower)).out

\* C7: boundary clamp.  A query above t[n] on an axis whose upper flag is
\* false is evaluated, not rejected, and gives the output of the query at
\* t[n]; a query below t[k] with the lower flag false that of the query at
\* t[k].
BcClamp ==
    /\ BcAboveUpper =>
          (y_out.status = "ok" /\ y_out = CallEffect(Fresh, BcAt(BcUpper)).out)
    /\ BcBelowLower =>
          (y_out.status = "ok" /\ y_out = CallEffect(Fresh, BcAt(BcLower)).out)

\* C10: a call leaves the caller's coordinate array as it was passed, and the
\* knot lines and the coefficient tensor as they were constructed.
BcCallerArrayKept ==
    calls > 0 =>
        /\ x_caller = last_arg.data
        /\ self.knots_vec = built.knots_vec
        /\ self.coeffs = built.coeffs

\* C4: a coordinate array whose leading dimension is not ndim is rejected by
\* a dimension error raised before anything is computed.
ShRejectsMismatch ==
    (calls > 0 /\ Head(last_arg.shape) # self.ndim) =>
        (y_out.status = "ValueError" /\ y_out.stage = "reshape_x")

\* C5: for a coordinate array of shape (ndim, q_1, ..., q_r), r >= 0, the call
\* returns an array of shape (mdim, q_1, ..., q_r).
ShOutputShape ==
    (calls > 0 /\ Head(last_arg.shape) = self.ndim) =>
        (y_out.status = "ok" /\ y_out.shape = <<self.mdim>> \o Tail(last_arg.shape))
====
